---- MODULE Spec2Model ----
(***************************************************************************)
(* The per-connection resource managers of the backend:                    *)
(*   PostgresPoolManager        (services/postgres_pool.py)   manager "pg" *)
(*   SnowflakeConnectionManager (services/snowflake_pool.py)  manager "sf" *)
(* Each owns a class-level dict connection_id -> handle and one            *)
(* asyncio.Lock.  Requests are asyncio tasks; a task's pc is the await it  *)
(* is suspended at.  Code between two awaits runs atomically on the event  *)
(* loop, so one action is one such stretch of code.                        *)
(***************************************************************************)
EXTENDS Naturals, Sequences, FiniteSets

\* Bounds of the model.
NTasks == 2
MaxHandles == 2
MaxQueue == 2
NReq == 6
MaxRows == 5
MaxBatch == 6
MaxCalls == MaxRows + 2
NCols == 2
MaxRecords == 2
MaxIdLen == 3
MaxDbs == 3
MaxEntries == 2

Tasks == 1..NTasks
Managers == {"pg", "sf"}
ConnIds == {"c1", "c2"}
Free == 0

\* The connection records a deployment may have stored.
Deployments ==
  {{<<m, id>> : id \in ConnIds} : m \in Managers} \cup {{<<m, "c1">> : m \in Managers}}

VARIABLES
  pools,    \* pools[m]: the dict of manager m, in insertion order, <<[id, h], ...>>
  lock,     \* lock[m]: the task holding manager m's asyncio.Lock, or Free
  handles,  \* handles[h]: every construction call made so far and what became of it
  task,     \* task[t]: the call task t is in
  stored,   \* the stored connection records: <<manager, connection_id>>
  life,     \* the application lifespan: its phase and the close_all calls it made
  tst,      \* per manager, the test_connection call in flight and its throwaway
  ex,       \* the Snowflake manager's driver calls: on the executor or the loop
  bor,      \* the Postgres router requests borrowing from one pool
  pgn,      \* a paginated-query session: the request and the last response
  inf,      \* the column type inference of the Postgres paginated endpoint
  qt,       \* a Snowflake schema request and the statement built for it
  rt,       \* a router request through get_connection_credentials
  cat       \* a Snowflake request that enumerates the databases

\* The state of the routers' own steps.
rtr == <<inf, qt, rt, cat>>

\* The state outside the two managers and their callers.
others == <<life, tst, ex, bor, pgn, rtr>>

\* The state of the two managers and their callers.
mgr == <<pools, lock, handles, task, stored>>

vars == <<pools, lock, handles, task, stored, others>>

\* main.py: the application after startup, before shutdown.
Serving == [phase |-> "running", calls |-> [m \in Managers |-> 0]]

\* No test_connection call is in progress.
IdleTest == [pc |-> "idle", conn |-> "none", res |-> "none"]

\* _executor = ThreadPoolExecutor(max_workers=10)
MaxWorkers == 10

\* No driver call has been made: all workers idle, nothing queued, the event
\* loop thread runs coroutines, no session cached.
IdleExecutor ==
  [hung |-> 0, busy |-> 0, queue |-> <<>>, pc |-> "idle", job |-> "none",
   cached |-> FALSE, loop |-> "free"]

\* The Postgres router requests that use one pool.
Requests == 1..NReq

\* asyncpg.create_pool(..., max_size=5)
MaxSize == 5

\* No router request has been made: nothing is borrowed from the pool.
NoBorrow == [pc |-> [r \in Requests |-> "idle"], borrowed |-> 0]

\* No paginated query has been made.
NoPage == [pc |-> "none"]

\* No page has been answered by the Postgres paginated endpoint.
NoInference == [pc |-> "none"]

\* No schema request has been made, no identifier is being quoted.
NoStatement == [pc |-> "none"]

\* No request is in progress; made[h] is the password with which handle h
\* was constructed.
NoRequest == [pc |-> "none", made |-> <<>>]

\* No enumeration has been asked for.
NoEnumeration == [pc |-> "none"]

IdleTask ==
  [pc |-> "idle", op |-> "none", m |-> "none", id |-> "none",
   held |-> 0, stale |-> 0, err |-> "none", idx |-> 0, useSt |-> "none"]

\* ---------------------------------------------------------------- the dict

\* The keys of a dict.
Keys(d) == {d[i].id : i \in DOMAIN d}

CachedNever(d, id) == FALSE

\* `connection_id in cls._pools`
Cached(d, id) == id \in Keys(d)

\* `cls._pools[connection_id]` (0 when the key is missing)
Lookup(d, id) ==
  IF id \in Keys(d) THEN d[CHOOSE i \in DOMAIN d : d[i].id = id].h ELSE 0

\* `cls._pools[connection_id] = h`: an existing key keeps its place in the
\* dict, a new key goes to the end.
Put(d, id, h) ==
  IF id \in Keys(d)
    THEN [i \in DOMAIN d |-> IF d[i].id = id THEN [id |-> id, h |-> h] ELSE d[i]]
    ELSE Append(d, [id |-> id, h |-> h])

\* `del cls._pools[connection_id]`
Del(d, id) == SelectSeq(d, LAMBDA e : e.id # id)

\* ---------------------------------------------------------------- the lock

LockFreeAlways(m) == TRUE

\* asyncio.Lock: `async with cls._lock` enters only when nobody holds it.
LockFree(m) == lock[m] = Free

\* ---------------------------------------------------------------- handles

\* A construction call and its outcome.  st: "open" (constructed), "failed"
\* (the construction raised), "closed" (close() has been called on it; the
\* code never looks at what a close() that raised leaves behind).  by: the
\* code path that called close() last, "close" (close_pool, close_connection,
\* close_all) or "probe" (get_connection after a failed probe).
NewHandle(m, id, st) == [m |-> m, id |-> id, st |-> st, by |-> "none"]

Closed(h, by) == [handles EXCEPT ![h].st = "closed", ![h].by = by]

\* Calls that may still make a construction call.
Constructing ==
  {t \in Tasks : task[t].op = "get" /\ task[t].pc \in {"wait", "probing", "creating"}}

\* ---------------------------------------------------------------- calls

\* The call of task t is at `async with cls._lock` of operation op on manager m.
AtLock(t, op, m) ==
  /\ task[t].pc = "wait"
  /\ task[t].op = op
  /\ task[t].m = m

\* The task after its call has returned: a request that got its handle goes
\* on with it, any other is over and only whether it raised is kept.
Returned(r, pc, held, err) ==
  IF pc = "have"
    THEN [r EXCEPT !.pc = pc, !.held = held]
    ELSE [IdleTask EXCEPT !.err = err]

\* The call of task t returns (or raises err): the lock is released on the
\* way out of `async with`.
Return(t, pc, held, err) ==
  /\ task' = [task EXCEPT ![t] = Returned(task[t], pc, held, err)]
  /\ lock' = [lock EXCEPT ![task[t].m] = Free]
  /\ UNCHANGED <<stored, others>>

\* The same for a call that went through `async with` without suspending.
ReturnAtOnce(t, pc, held) ==
  /\ task' = [task EXCEPT ![t] = Returned(task[t], pc, held, "none")]
  /\ UNCHANGED <<lock, stored, others>>

\* A request calls get_pool / get_connection and reaches `async with cls._lock`.
CallGet(t, m, id) ==
  /\ task[t].pc = "idle"
  /\ <<m, id>> \in stored
  /\ Len(handles) + Cardinality(Constructing) < MaxHandles
  /\ task' = [task EXCEPT ![t] = [IdleTask EXCEPT !.pc = "wait", !.op = "get", !.m = m, !.id = id]]
  /\ UNCHANGED <<pools, lock, handles, stored, others>>

\* A request calls close_pool / close_connection.
CallClose(t, m, id) ==
  /\ task[t].pc = "idle"
  /\ <<m, id>> \in stored
  /\ task' = [task EXCEPT ![t] = [IdleTask EXCEPT !.pc = "wait", !.op = "close", !.m = m, !.id = id]]
  /\ UNCHANGED <<pools, lock, handles, stored, others>>

\* close_all is called.
CallCloseAll(t, m) ==
  /\ task[t].pc = "idle"
  /\ \E id \in ConnIds : <<m, id>> \in stored
  /\ task' = [task EXCEPT ![t] = [IdleTask EXCEPT !.pc = "wait", !.op = "close_all", !.m = m]]
  /\ UNCHANGED <<pools, lock, handles, stored, others>>

\* ------------------------------------------- get_pool / get_connection

\* A variant that constructs anew although the key is present.
GetHitReconnects(t) ==
  /\ AtLock(t, "get", "pg")
  /\ LockFree("pg")
  /\ Cached(pools["pg"], task[t].id)
  /\ lock' = [lock EXCEPT !["pg"] = t]
  /\ task' = [task EXCEPT ![t].pc = "creating"]
  /\ UNCHANGED <<pools, handles, stored, others>>

\* PostgresPoolManager.get_pool, key present: the cached pool is returned.
GetHit(t) ==
  /\ AtLock(t, "get", "pg")
  /\ LockFree("pg")
  /\ Cached(pools["pg"], task[t].id)
  /\ ReturnAtOnce(t, "have", Lookup(pools["pg"], task[t].id))
  /\ UNCHANGED <<pools, handles>>

\* SnowflakeConnectionManager.get_connection, key present: SELECT 1 is sent
\* on the cached session through the executor.
GetProbe(t) ==
  /\ AtLock(t, "get", "sf")
  /\ LockFree("sf")
  /\ Cached(pools["sf"], task[t].id)
  /\ lock' = [lock EXCEPT !["sf"] = t]
  /\ task' = [task EXCEPT ![t].pc = "probing", ![t].held = Lookup(pools["sf"], task[t].id)]
  /\ UNCHANGED <<pools, handles, stored, others>>

GetMissNoLock(t) ==
  /\ \E m \in Managers : AtLock(t, "get", m)
  /\ ~Cached(pools[task[t].m], task[t].id)
  /\ task' = [task EXCEPT ![t].pc = "creating"]
  /\ UNCHANGED <<pools, lock, handles, stored, others>>

\* Either manager, key absent: the construction call is awaited under the lock.
GetMiss(t) ==
  /\ \E m \in Managers : AtLock(t, "get", m)
  /\ LockFree(task[t].m)
  /\ ~Cached(pools[task[t].m], task[t].id)
  /\ lock' = [lock EXCEPT ![task[t].m] = t]
  /\ task' = [task EXCEPT ![t].pc = "creating"]
  /\ UNCHANGED <<pools, handles, stored, others>>

\* The probe returns: the cached session is returned.
ProbeOk(t) ==
  /\ task[t].pc = "probing"
  /\ Return(t, "have", task[t].held, "none")
  /\ UNCHANGED <<pools, handles>>

ProbeFailReturnsStale(t) ==
  /\ task[t].pc = "probing"
  /\ Return(t, "have", task[t].held, "none")
  /\ handles' = [handles EXCEPT ![task[t].held].by = "probe"]
  /\ UNCHANGED pools

\* The probe raises: conn.close() is called (it may raise, which is ignored),
\* the entry is deleted and the construction call is awaited.
ProbeFail(t) ==
  /\ task[t].pc = "probing"
  /\ handles' = Closed(task[t].held, "probe")
  /\ pools' = [pools EXCEPT !["sf"] = Del(@, task[t].id)]
  /\ task' = [task EXCEPT ![t].pc = "creating", ![t].stale = task[t].held, ![t].held = 0]
  /\ UNCHANGED <<lock, stored, others>>

\* asyncpg.create_pool / snowflake.connector.connect returns: the handle is
\* stored under connection_id and returned.
CreateOk(t) ==
  /\ task[t].pc = "creating"
  /\ handles' = Append(handles, NewHandle(task[t].m, task[t].id, "open"))
  /\ pools' = [pools EXCEPT ![task[t].m] = Put(@, task[t].id, Len(handles) + 1)]
  /\ Return(t, "have", Len(handles) + 1, "none")

CreateFailKeepsLock(t) ==
  /\ task[t].pc = "creating"
  /\ handles' = Append(handles, NewHandle(task[t].m, task[t].id, "failed"))
  /\ task' = [task EXCEPT ![t] = [IdleTask EXCEPT !.err = "ConnectivityError"]]
  /\ UNCHANGED <<pools, lock, stored, others>>

\* The construction call raises: the exception leaves get_pool /
\* get_connection through `async with`, nothing is stored.
CreateFail(t) ==
  /\ task[t].pc = "creating"
  /\ handles' = Append(handles, NewHandle(task[t].m, task[t].id, "failed"))
  /\ Return(t, "idle", 0, "ConnectivityError")
  /\ UNCHANGED pools

\* ------------------------------------------- close_pool / close_connection

\* Key absent: nothing to do.
CloseAbsent(t) ==
  /\ \E m \in Managers : AtLock(t, "close", m)
  /\ LockFree(task[t].m)
  /\ ~Cached(pools[task[t].m], task[t].id)
  /\ ReturnAtOnce(t, "idle", 0)
  /\ UNCHANGED <<pools, handles>>

\* A variant that enters without waiting for the lock.
CloseBeginNoLock(t) ==
  /\ \E m \in Managers : AtLock(t, "close", m)
  /\ Cached(pools[task[t].m], task[t].id)
  /\ lock' = [lock EXCEPT ![task[t].m] = t]
  /\ task' = [task EXCEPT ![t].pc = "closing", ![t].held = Lookup(pools[task[t].m], task[t].id)]
  /\ UNCHANGED <<pools, handles, stored, others>>

\* Key present: close() of the cached handle is awaited under the lock.
CloseBegin(t) ==
  /\ \E m \in Managers : AtLock(t, "close", m)
  /\ LockFree(task[t].m)
  /\ Cached(pools[task[t].m], task[t].id)
  /\ lock' = [lock EXCEPT ![task[t].m] = t]
  /\ task' = [task EXCEPT ![t].pc = "closing", ![t].held = Lookup(pools[task[t].m], task[t].id)]
  /\ UNCHANGED <<pools, handles, stored, others>>

\* close() returns: the entry is deleted.
CloseOk(t) ==
  /\ task[t].pc = "closing"
  /\ handles' = Closed(task[t].held, "close")
  /\ pools' = [pools EXCEPT ![task[t].m] = Del(@, task[t].id)]
  /\ Return(t, "idle", 0, "none")

\* close() raises.  close_pool has no handler: the exception propagates and
\* the `del` below the await is not reached.  close_connection ignores the
\* exception and deletes the entry.
CloseRaise(t) ==
  /\ task[t].pc = "closing"
  /\ handles' = Closed(task[t].held, "close")
  /\ IF task[t].m = "pg"
       THEN /\ UNCHANGED pools
            /\ Return(t, "idle", 0, "CloseError")
       ELSE /\ pools' = [pools EXCEPT !["sf"] = Del(@, task[t].id)]
            /\ Return(t, "idle", 0, "none")

\* ------------------------------------------- close_all

\* The dict is empty: the loop body never runs, clear() changes nothing.
CloseAllEmpty(t) ==
  /\ \E m \in Managers : AtLock(t, "close_all", m)
  /\ LockFree(task[t].m)
  /\ pools[task[t].m] = <<>>
  /\ ReturnAtOnce(t, "idle", 0)
  /\ UNCHANGED <<pools, handles>>

\* The dict is not empty: close() of its first value is awaited under the lock.
CloseAllBegin(t) ==
  /\ \E m \in Managers : AtLock(t, "close_all", m)
  /\ LockFree(task[t].m)
  /\ pools[task[t].m] # <<>>
  /\ lock' = [lock EXCEPT ![task[t].m] = t]
  /\ task' = [task EXCEPT ![t].pc = "closing_all", ![t].idx = 1]
  /\ UNCHANGED <<pools, handles, stored, others>>

\* The loop goes on to the next value, or ends: clear() and return.
CloseAllAdvance(t) ==
  IF task[t].idx < Len(pools[task[t].m])
    THEN /\ task' = [task EXCEPT ![t].idx = @ + 1]
         /\ UNCHANGED <<pools, lock, stored, others>>
    ELSE /\ pools' = [pools EXCEPT ![task[t].m] = <<>>]
         /\ Return(t, "idle", 0, "none")

\* close() of the value the loop is at returns.
CloseAllOk(t) ==
  /\ task[t].pc = "closing_all"
  /\ task[t].idx \in DOMAIN pools[task[t].m]
  /\ handles' = Closed(pools[task[t].m][task[t].idx].h, "close")
  /\ CloseAllAdvance(t)

\* close() of the value the loop is at raises.  PostgresPoolManager.close_all
\* has no handler: the exception propagates, the rest of the loop and clear()
\* are not reached.  SnowflakeConnectionManager.close_all ignores it.
CloseAllRaise(t) ==
  /\ task[t].pc = "closing_all"
  /\ task[t].idx \in DOMAIN pools[task[t].m]
  /\ handles' = Closed(pools[task[t].m][task[t].idx].h, "close")
  /\ IF task[t].m = "pg"
       THEN /\ UNCHANGED pools
            /\ Return(t, "idle", 0, "CloseError")
       ELSE CloseAllAdvance(t)

\* ------------------------------------------- the request uses its handle

\* routers: `async with pool.acquire()` / execute_query(conn, ...) on the
\* handle the request got, whatever has happened to the handle since.
UseStart(t) ==
  /\ task[t].pc = "have"
  /\ task' = [task EXCEPT ![t].pc = "using", ![t].useSt = handles[task[t].held].st]
  /\ UNCHANGED <<pools, lock, handles, stored, others>>

\* The statement is over; the request ends.
UseEnd(t) ==
  /\ task[t].pc = "using"
  /\ task' = [task EXCEPT ![t] = IdleTask]
  /\ UNCHANGED <<pools, lock, handles, stored, others>>

Init ==
  /\ pools = [m \in Managers |-> <<>>]
  /\ lock = [m \in Managers |-> Free]
  /\ handles = <<>>
  /\ task = [t \in Tasks |-> IdleTask]
  /\ stored \in Deployments
  /\ life = Serving
  /\ tst = [m \in Managers |-> IdleTest]
  /\ ex = IdleExecutor
  /\ bor = NoBorrow
  /\ pgn = NoPage
  /\ inf = NoInference
  /\ qt = NoStatement
  /\ rt = NoRequest
  /\ cat = NoEnumeration

Next ==
  \E t \in Tasks :
    \/ \E m \in Managers, id \in ConnIds : CallGet(t, m, id)
    \/ \E m \in Managers, id \in ConnIds : CallClose(t, m, id)
    \/ \E m \in Managers : CallCloseAll(t, m)
    \/ GetHit(t)
    \/ GetProbe(t)
    \/ GetMiss(t)
    \/ ProbeOk(t)
    \/ ProbeFail(t)
    \/ CreateOk(t)
    \/ CreateFail(t)
    \/ CloseAbsent(t)
    \/ CloseBegin(t)
    \/ CloseOk(t)
    \/ CloseRaise(t)
    \/ CloseAllEmpty(t)
    \/ CloseAllBegin(t)
    \/ CloseAllOk(t)
    \/ CloseAllRaise(t)
    \/ UseStart(t)
    \/ UseEnd(t)

Spec == Init /\ [][Next]_vars

\* ------------------------------------------------------------------------
\* main.py: the application lifespan.

\* The task slot in which the lifespan coroutine runs its close_all calls.
LifespanTask == CHOOSE t \in Tasks : \A u \in Tasks : t <= u

\* The lifespan calls close_all of manager m and moves to phase ph.
LifespanCalls(m, ph) ==
  /\ life' = [life EXCEPT !.phase = ph, !.calls[m] = @ + 1]
  /\ task' = [task EXCEPT ![LifespanTask] =
                [IdleTask EXCEPT !.pc = "wait", !.op = "close_all", !.m = m]]
  /\ UNCHANGED <<pools, lock, handles, stored, tst, ex, bor, pgn, rtr>>

\* Orderly shutdown: no request is in flight when the server resumes the
\* lifespan after `yield`; it first awaits PostgresPoolManager.close_all().
Shutdown ==
  /\ life.phase = "running"
  /\ \A t \in Tasks : task[t].pc = "idle"
  /\ LifespanCalls("pg", "pg")

\* PostgresPoolManager.close_all() returned: the lifespan awaits
\* SnowflakeConnectionManager.close_all().
LifespanNext ==
  /\ life.phase = "pg"
  /\ task[LifespanTask].pc = "idle"
  /\ task[LifespanTask].err = "none"
  /\ LifespanCalls("sf", "sf")

\* PostgresPoolManager.close_all() raised: nothing in the lifespan catches
\* it, the statements after the await are not run.
LifespanRaise ==
  /\ life.phase = "pg"
  /\ task[LifespanTask].pc = "idle"
  /\ task[LifespanTask].err # "none"
  /\ life' = [life EXCEPT !.phase = "failed"]
  /\ UNCHANGED <<mgr, tst, ex, bor, pgn, rtr>>

\* SnowflakeConnectionManager.close_all() returned: the lifespan is over.
LifespanDone ==
  /\ life.phase = "sf"
  /\ task[LifespanTask].pc = "idle"
  /\ life' = [life EXCEPT !.phase = "done"]
  /\ UNCHANGED <<mgr, tst, ex, bor, pgn, rtr>>

\* Requests arrive only while the application serves.
ServeGet ==
  /\ life.phase = "running"
  /\ \E t \in Tasks, m \in Managers, id \in ConnIds : CallGet(t, m, id)

ServeClose ==
  /\ life.phase = "running"
  /\ \E t \in Tasks, m \in Managers, id \in ConnIds : CallClose(t, m, id)

\* close_all has no caller but the lifespan.
NextShutdown ==
  \/ ServeGet
  \/ ServeClose
  \/ \E t \in Tasks : GetHit(t)
  \/ \E t \in Tasks : GetProbe(t)
  \/ \E t \in Tasks : GetMiss(t)
  \/ \E t \in Tasks : ProbeOk(t)
  \/ \E t \in Tasks : ProbeFail(t)
  \/ \E t \in Tasks : CreateOk(t)
  \/ \E t \in Tasks : CreateFail(t)
  \/ \E t \in Tasks : CloseAbsent(t)
  \/ \E t \in Tasks : CloseBegin(t)
  \/ \E t \in Tasks : CloseOk(t)
  \/ \E t \in Tasks : CloseRaise(t)
  \/ \E t \in Tasks : CloseAllEmpty(t)
  \/ \E t \in Tasks : CloseAllBegin(t)
  \/ \E t \in Tasks : CloseAllOk(t)
  \/ \E t \in Tasks : CloseAllRaise(t)
  \/ \E t \in Tasks : UseStart(t)
  \/ \E t \in Tasks : UseEnd(t)
  \/ Shutdown
  \/ LifespanNext
  \/ LifespanRaise
  \/ LifespanDone

SpecShutdown == Init /\ [][NextShutdown]_vars

\* ------------------------------------------------------------------------
\* test_connection of the two managers.  tst[m] is the call in flight on
\* manager m: where it is, its throwaway connection and, for Snowflake, how
\* the trivial statement ended.  A connection counts as closed once close()
\* has been called on it.

\* The call moves on: nothing of the managers is read or written.
TestStep(m, pc, conn, res) ==
  /\ tst' = [tst EXCEPT ![m] = [pc |-> pc, conn |-> conn, res |-> res]]
  /\ UNCHANGED <<mgr, life, ex, bor, pgn, rtr>>

\* test_connection is called (one call at a time): asyncpg.connect is
\* awaited, or _test is handed to the executor and starts with
\* _create_connection_sync.
TestCall(m) ==
  /\ \A n \in Managers : tst[n].pc = "idle"
  /\ TestStep(m, "connecting", "none", "none")

\* The connection attempt fails: the exception leaves the call.
TestConnectFail(m) ==
  /\ tst[m].pc = "connecting"
  /\ TestStep(m, "raised", "none", "none")

\* The connection attempt succeeds.  Postgres goes on to close it, Snowflake
\* to execute SELECT CURRENT_VERSION().
TestConnectOk(m) ==
  /\ tst[m].pc = "connecting"
  /\ TestStep(m, IF m = "pg" THEN "closing" ELSE "stmt", "open", "ok")

\* The trivial statement succeeds: `return True` runs the finally block.
TestStmtOk(m) ==
  /\ tst[m].pc = "stmt"
  /\ TestStep(m, "closing", "open", "ok")

\* A variant that leaves the call without the finally block.
TestStmtFailLeaks(m) ==
  /\ tst[m].pc = "stmt"
  /\ TestStep(m, "raised", "open", "err")

\* The trivial statement raises: the finally block runs.
TestStmtFail(m) ==
  /\ tst[m].pc = "stmt"
  /\ TestStep(m, "closing", "open", "err")

\* close() of the throwaway returns: the call returns True, or the
\* statement's exception goes on.
TestCloseOk(m) ==
  /\ tst[m].pc = "closing"
  /\ TestStep(m, IF tst[m].res = "ok" THEN "returned" ELSE "raised", "closed", tst[m].res)

\* close() of the throwaway raises: the exception leaves the call.
TestCloseRaise(m) ==
  /\ tst[m].pc = "closing"
  /\ TestStep(m, "raised", "closed", "err")

\* The caller has the result; the throwaway is dropped.
TestEnd(m) ==
  /\ tst[m].pc \in {"returned", "raised"}
  /\ TestStep(m, "idle", "none", "none")

\* Beside the test calls, one request at a time goes through a manager.
Quiet == \A t \in Tasks : task[t].pc = "idle"

PeerGet ==
  /\ Quiet
  /\ \E t \in Tasks, m \in Managers, id \in ConnIds : CallGet(t, m, id)

PeerClose ==
  /\ Quiet
  /\ \E t \in Tasks, m \in Managers, id \in ConnIds : CallClose(t, m, id)

NextTest ==
  \/ PeerGet
  \/ PeerClose
  \/ \E t \in Tasks : GetHit(t)
  \/ \E t \in Tasks : GetProbe(t)
  \/ \E t \in Tasks : GetMiss(t)
  \/ \E t \in Tasks : ProbeOk(t)
  \/ \E t \in Tasks : ProbeFail(t)
  \/ \E t \in Tasks : CreateOk(t)
  \/ \E t \in Tasks : CreateFail(t)
  \/ \E t \in Tasks : CloseAbsent(t)
  \/ \E t \in Tasks : CloseBegin(t)
  \/ \E t \in Tasks : CloseOk(t)
  \/ \E t \in Tasks : CloseRaise(t)
  \/ \E t \in Tasks : UseStart(t)
  \/ \E t \in Tasks : UseEnd(t)
  \/ \E m \in Managers : TestCall(m)
  \/ \E m \in Managers : TestConnectFail(m)
  \/ \E m \in Managers : TestConnectOk(m)
  \/ \E m \in Managers : TestStmtOk(m)
  \/ \E m \in Managers : TestStmtFail(m)
  \/ \E m \in Managers : TestCloseOk(m)
  \/ \E m \in Managers : TestCloseRaise(m)
  \/ \E m \in Managers : TestEnd(m)

SpecTest == Init /\ [][NextTest]_vars

\* ------------------------------------------------------------------------
\* The Snowflake manager's blocking driver calls.  ex.hung and ex.busy count
\* the workers of _executor that run a statement which never returns and one
\* which does; ex.queue is the executor's work queue; ex.pc and ex.job are a
\* get_connection / close_connection call for one connection_id and its
\* driver call; ex.cached tells whether that id has a session; ex.loop tells
\* whether the event-loop thread is inside a driver call.  The statements
\* run on sessions of other connection_ids.

\* Workers that are running a job.
Working == ex.hung + ex.busy + (IF ex.job = "running" THEN 1 ELSE 0)

\* Driver calls running at the same time, wherever they run.
DriverCalls == Working + (IF ex.loop = "driver" THEN 1 ELSE 0)

\* loop.run_in_executor(cls._executor, job)
Enqueue(job) == Append(ex.queue, job)

ExecStep(e) ==
  /\ ex' = e
  /\ UNCHANGED <<mgr, life, tst, bor, pgn, rtr>>

\* execute_query hands a statement to the executor; kind tells whether the
\* statement will ever return.  Coroutines run only while the event-loop
\* thread is free.
SubmitStatement(kind) ==
  /\ ex.loop = "free"
  /\ Len(ex.queue) < MaxQueue
  /\ ExecStep([ex EXCEPT !.queue = Enqueue(kind)])

\* An idle worker takes the head of the work queue.
Dispatch ==
  /\ ex.queue # <<>>
  /\ Working < MaxWorkers
  /\ LET job == Head(ex.queue)
         e == [ex EXCEPT !.queue = Tail(ex.queue)]
     IN  ExecStep(CASE job = "hang" -> [e EXCEPT !.hung = @ + 1]
                    [] job = "stmt" -> [e EXCEPT !.busy = @ + 1]
                    [] OTHER -> [e EXCEPT !.job = "running"])

\* A statement returns and its worker is idle again.
StatementDone ==
  /\ ex.busy > 0
  /\ ExecStep([ex EXCEPT !.busy = @ - 1])

\* get_connection: the liveness probe of a cached session, or the connect,
\* goes to the executor.
ExecGet ==
  /\ ex.loop = "free"
  /\ ex.pc = "idle"
  /\ ExecStep([ex EXCEPT !.pc = IF ex.cached THEN "probe" ELSE "connect",
                         !.job = "queued", !.queue = Enqueue("call")])

\* close_connection of a cached session: conn.close goes to the executor.
ExecClose ==
  /\ ex.loop = "free"
  /\ ex.pc = "idle"
  /\ ex.cached
  /\ ExecStep([ex EXCEPT !.pc = "close", !.job = "queued", !.queue = Enqueue("call")])

\* The awaited driver call returns: the probed session is returned, the new
\* session is cached and returned, or the closed one is deleted.
JobOk ==
  /\ ex.loop = "free"
  /\ ex.job = "running"
  /\ ExecStep([ex EXCEPT !.job = "none", !.pc = "done",
                         !.cached = (ex.pc # "close")])

\* The probe raises: `conn.close()` is called in the coroutine itself, on the
\* event-loop thread.
JobFailProbe ==
  /\ ex.loop = "free"
  /\ ex.job = "running"
  /\ ex.pc = "probe"
  /\ ExecStep([ex EXCEPT !.job = "none", !.pc = "staleClose", !.loop = "driver"])

\* The connect raises (the call raises), or the close raises (swallowed, the
\* entry is deleted).
JobFail ==
  /\ ex.loop = "free"
  /\ ex.job = "running"
  /\ ex.pc \in {"connect", "close"}
  /\ ExecStep([ex EXCEPT !.job = "none", !.pc = "done",
                         !.cached = IF ex.pc = "close" THEN FALSE ELSE @])

\* The close of the stale session is over: the entry is deleted and the
\* connect goes to the executor.
StaleCloseDone ==
  /\ ex.pc = "staleClose"
  /\ ExecStep([ex EXCEPT !.loop = "free", !.cached = FALSE, !.pc = "connect",
                         !.job = "queued", !.queue = Enqueue("call")])

\* The caller has the result.
ExecEnd ==
  /\ ex.loop = "free"
  /\ ex.pc = "done"
  /\ ExecStep([ex EXCEPT !.pc = "idle"])

NextExec ==
  \/ SubmitStatement("stmt")
  \/ SubmitStatement("hang")
  \/ Dispatch
  \/ StatementDone
  \/ ExecGet
  \/ ExecClose
  \/ JobOk
  \/ JobFailProbe
  \/ JobFail
  \/ StaleCloseDone
  \/ ExecEnd

SpecExec == Init /\ [][NextExec]_vars

\* ------------------------------------------------------------------------
\* routers/postgres.py: the requests that borrow a connection of one pool
\* with `async with pool.acquire() as conn`.  bor.pc[r] is where request r
\* is; bor.borrowed is the pool's number of connections handed out.

BorrowStep(r, pc, borrowed) ==
  /\ bor' = [bor EXCEPT !.pc[r] = pc, !.borrowed = borrowed]
  /\ UNCHANGED <<mgr, life, tst, ex, pgn, rtr>>

\* A request has its pool and reaches `async with pool.acquire()`.
BorrowCall(r) ==
  /\ bor.pc[r] = "idle"
  /\ BorrowStep(r, "waiting", bor.borrowed)

\* The pool hands out a connection; with max_size handed out the request
\* waits.  The paginated endpoint with include_count and offset 0 starts with
\* the count statement, every other request with its one statement.
Acquire(r, first) ==
  /\ bor.pc[r] = "waiting"
  /\ bor.borrowed < MaxSize
  /\ BorrowStep(r, first, bor.borrowed + 1)

\* pool.acquire() raises: nothing was borrowed, the request fails.
AcquireRaise(r) ==
  /\ bor.pc[r] = "waiting"
  /\ BorrowStep(r, "err", bor.borrowed)

\* The count statement returns: the page statement follows on the same
\* connection.
CountOk(r) ==
  /\ bor.pc[r] = "count"
  /\ BorrowStep(r, "page", bor.borrowed)

\* The last statement returns: the block is left, the connection goes back.
StatementOk(r) ==
  /\ bor.pc[r] = "page"
  /\ BorrowStep(r, "ok", bor.borrowed - 1)

\* A variant in which an exception leaves the block without the release.
StatementRaiseKeeps(r) ==
  /\ bor.pc[r] \in {"count", "page"}
  /\ BorrowStep(r, "err", bor.borrowed)

\* A statement raises: `async with` releases the connection on the way to
\* the `except` that answers 400.
StatementRaise(r) ==
  /\ bor.pc[r] \in {"count", "page"}
  /\ BorrowStep(r, "err", bor.borrowed - 1)

NextBorrow ==
  \E r \in Requests :
    \/ BorrowCall(r)
    \/ \E first \in {"count", "page"} : Acquire(r, first)
    \/ AcquireRaise(r)
    \/ CountOk(r)
    \/ StatementOk(r)
    \/ StatementRaise(r)

SpecBorrow == Init /\ [][NextBorrow]_vars

\* ------------------------------------------------------------------------
\* The paginated query of both flavors (routers/postgres.py
\* execute_paginated_query, snowflake_pool.py execute_query_paginated), which
\* compute alike.  pgn is one paging session: the result set of the query
\* (rows 1..n, and whether the database returns them in the same order on
\* every call), the request of the current call, the statements it has
\* executed on its connection, its response, and what the session has
\* received so far.

\* The rows a query can have, and the request fields; batch_size and offset
\* are plain ints, nothing validates them.
Rows == 1..MaxRows
BatchSizes == (0..MaxBatch) \cup {0 - 1}
Offsets == (0..(MaxRows + 1)) \cup {0 - 1}

\* total_rows: int | None = None
Null == 0 - 1

\* A variant that counts whenever include_count is set.
CountWantedAnyOffset(include_count, offset) == include_count

\* if include_count and offset == 0
CountWanted(include_count, offset) == include_count /\ offset = 0

\* A variant that assumes a full batch.
NextOffsetFullBatch(offset, rows_fetched, batch_size) == offset + batch_size

\* next_offset = offset + rows_fetched
NextOffset(offset, rows_fetched, batch_size) == offset + rows_fetched

\* Variants of the comparison with the count.
HasMoreKnownInclusive(next_offset, total_rows) == next_offset <= total_rows

HasMoreKnownEarly(next_offset, total_rows) == next_offset + 1 < total_rows

\* has_more = next_offset < total_rows
HasMoreKnown(next_offset, total_rows) == next_offset < total_rows

\* A variant that goes on after any non-empty page.
HasMoreUnknownNonEmpty(rows_fetched, batch_size) == rows_fetched > 0

\* has_more = rows_fetched == batch_size
HasMoreUnknown(rows_fetched, batch_size) == rows_fetched = batch_size

\* if total_rows is not None: ... else: ...
HasMore(total_rows, next_offset, rows_fetched, batch_size) ==
  IF total_rows # Null
    THEN HasMoreKnown(next_offset, total_rows)
    ELSE HasMoreUnknown(rows_fetched, batch_size)

Min(a, b) == IF a <= b THEN a ELSE b

\* The number of rows LIMIT batch_size OFFSET offset yields of n rows.
PageSize(n, batch_size, offset) ==
  IF offset >= n THEN 0 ELSE Min(batch_size, n - offset)

\* SELECT * FROM (query) AS subq LIMIT batch_size OFFSET offset: the pages the
\* database can return.  The statement has no ORDER BY of its own: a database
\* that keeps the order returns the rows after the first `offset`, any other
\* returns as many rows, whichever.
Pages(n, stable, batch_size, offset) ==
  LET k == PageSize(n, batch_size, offset)
  IN  IF stable
        THEN {{r \in 1..n : offset < r /\ r <= offset + k}}
        ELSE {S \in SUBSET (1..n) : Cardinality(S) = k}

\* The call has not answered yet.
NoResponse == [status |-> 0, rows |-> {}, total_rows |-> Null]

\* return PaginatedQueryResponse(rows=rows, ..., total_rows=total_rows, ...)
OkResponse(rows, total_rows) ==
  [status |-> 200, rows |-> rows, total_rows |-> total_rows]

\* A variant that answers with what was materialised before the failure.
PartialResponse(rows, total_rows) ==
  [status |-> 400, rows |-> rows, total_rows |-> total_rows]

\* except Exception as e: raise HTTPException(status_code=400, detail=...):
\* the rows and the count the call had so far are dropped.
ErrorResponse(rows, total_rows) ==
  [status |-> 400, rows |-> {}, total_rows |-> Null]

\* What the page statement can have materialised when it raises: nothing if
\* the database rejects it, else any part of a page.
PartialPages(n, stable, batch_size, offset) ==
  IF batch_size < 0 \/ offset < 0
    THEN {{}}
    ELSE IF stable
           THEN UNION {SUBSET page : page \in Pages(n, stable, batch_size, offset)}
           ELSE {S \in SUBSET (1..n) : Cardinality(S) <= PageSize(n, batch_size, offset)}

PageStep(p) ==
  /\ pgn' = p
  /\ UNCHANGED <<mgr, life, tst, ex, bor, rtr>>

\* The first call of a session arrives.
PageRequest(n, stable, batch_size, offset, include_count) ==
  /\ pgn.pc = "none"
  /\ PageStep([pc |-> "called", n |-> n, stable |-> stable,
               batch_size |-> batch_size, offset |-> offset,
               include_count |-> include_count, stmts |-> <<>>,
               total_rows |-> Null, rows |-> {}, has_more |-> FALSE,
               next_offset |-> 0,
               first |-> [offset |-> offset, include_count |-> include_count],
               total1 |-> Null, got |-> [r \in Rows |-> 0], sum |-> 0,
               calls |-> 1, resp |-> NoResponse])

\* The count statement is executed and returns the number of rows.
PageCount ==
  /\ pgn.pc = "called"
  /\ CountWanted(pgn.include_count, pgn.offset)
  /\ PageStep([pgn EXCEPT !.pc = "counted", !.stmts = Append(@, "count"),
                          !.total_rows = pgn.n])

\* The count statement raises: the call fails, the page statement is not
\* executed.
PageCountRaise ==
  /\ pgn.pc = "called"
  /\ CountWanted(pgn.include_count, pgn.offset)
  /\ PageStep([pgn EXCEPT !.pc = "failed", !.stmts = Append(@, "count"),
                          !.resp = ErrorResponse(pgn.rows, pgn.total_rows)])

\* The call is about to execute the page statement.
AtPageStatement ==
  \/ pgn.pc = "counted"
  \/ pgn.pc = "called" /\ ~CountWanted(pgn.include_count, pgn.offset)

\* The page statement returns `page`; the response is computed from it.
PageFetch(page) ==
  /\ AtPageStatement
  /\ pgn.batch_size >= 0
  /\ pgn.offset >= 0
  /\ page \in Pages(pgn.n, pgn.stable, pgn.batch_size, pgn.offset)
  /\ LET rows_fetched == Cardinality(page)
         next_offset == NextOffset(pgn.offset, rows_fetched, pgn.batch_size)
     IN  PageStep([pgn EXCEPT
           !.pc = "answered",
           !.stmts = Append(@, "page"),
           !.rows = page,
           !.next_offset = next_offset,
           !.has_more = HasMore(pgn.total_rows, next_offset, rows_fetched, pgn.batch_size),
           !.total1 = IF pgn.calls = 1 THEN pgn.total_rows ELSE @,
           !.got = [r \in Rows |-> IF r \in page THEN @[r] + 1 ELSE @[r]],
           !.sum = @ + rows_fetched,
           !.resp = OkResponse(page, pgn.total_rows)])

\* The page statement raises (the databases reject a negative LIMIT or
\* OFFSET), or the fetch of its rows does after `part` of them: the call
\* fails without rows.
PageFetchRaise(part) ==
  /\ AtPageStatement
  /\ part \in PartialPages(pgn.n, pgn.stable, pgn.batch_size, pgn.offset)
  /\ PageStep([pgn EXCEPT !.pc = "failed", !.stmts = Append(@, "page"),
                          !.rows = part,
                          !.resp = ErrorResponse(part, pgn.total_rows)])

\* The caller asks for the next page: offset = previous next_offset,
\* include_count = False.
PageNext ==
  /\ pgn.pc = "answered"
  /\ pgn.has_more
  /\ pgn.calls < MaxCalls
  /\ PageStep([pgn EXCEPT !.pc = "called", !.offset = pgn.next_offset,
                          !.include_count = FALSE, !.stmts = <<>>,
                          !.total_rows = Null, !.rows = {},
                          !.has_more = FALSE, !.next_offset = 0,
                          !.calls = @ + 1, !.resp = NoResponse])

NextPage ==
  \/ \E n \in 0..MaxRows, stable \in BOOLEAN, batch_size \in BatchSizes,
        offset \in Offsets, include_count \in BOOLEAN :
       PageRequest(n, stable, batch_size, offset, include_count)
  \/ PageCount
  \/ PageCountRaise
  \/ \E page \in SUBSET Rows : PageFetch(page)
  \/ \E part \in SUBSET Rows : PageFetchRaise(part)
  \/ PageNext

SpecPage == Init /\ [][NextPage]_vars

\* ------------------------------------------------------------------------
\* routers/postgres.py execute_paginated_query: the column types, inferred
\* from the first record.  A value is modelled by its Python type.

PyTypes == {"int", "float", "bool", "str", "NoneType"}

\* isinstance(value, cls): bool is a subclass of int.
IsInstance(value, cls) == value = cls \/ (value = "bool" /\ cls = "int")

\* The if / elif chain over the value of the first record.
InferType(value) ==
  IF IsInstance(value, "int") THEN "integer"
  ELSE IF IsInstance(value, "float") THEN "double precision"
  ELSE IF IsInstance(value, "bool") THEN "boolean"
  ELSE "text"

\* The records a page statement can return: each maps the columns to values.
Columns == 1..NCols
Records == [Columns -> PyTypes]
RecordLists == UNION {[1..k -> Records] : k \in 0..MaxRecords}

InferStep(i) ==
  /\ inf' = i
  /\ UNCHANGED <<mgr, life, tst, ex, bor, pgn, qt, rt, cat>>

\* records = await conn.fetch(paginated_query)
InferFetch(records) ==
  /\ inf.pc = "none"
  /\ InferStep([pc |-> "fetched", records |-> records, columns |-> <<>>])

\* if records: for key in first_record.keys(): schema_info.append(...)
InferColumns ==
  /\ inf.pc = "fetched"
  /\ InferStep([inf EXCEPT !.pc = "answered",
                  !.columns = IF inf.records = <<>>
                                THEN <<>>
                                ELSE [c \in Columns |-> InferType(inf.records[1][c])]])

\* The response is sent; the next page comes.
InferEnd ==
  /\ inf.pc = "answered"
  /\ InferStep(NoInference)

NextInfer ==
  \/ \E records \in RecordLists : InferFetch(records)
  \/ InferColumns
  \/ InferEnd

SpecInfer == Init /\ [][NextInfer]_vars

\* ------------------------------------------------------------------------
\* Identifier quoting (quote_identifier, imported from routers.snowflake by
\* tests/test_snowflake_utils.py) and the statements the Snowflake schema
\* endpoints build.  A string is the sequence of its characters.

DQ == "\""

\* A letter, the double quote, a blank, a newline, a non-ASCII letter and a
\* statement separator.
Alphabet == {"a", DQ, " ", "\n", "é", ";"}

\* The longest identifier that is accepted.
MaxIdentifierLength == 255

\* c * n
Repeat(c, n) == [i \in 1..n |-> c]

\* The identifiers tried: every short string, and the longest accepted one
\* and the shortest one too long, without and with a double quote.
Identifiers ==
  UNION {[1..k -> Alphabet] : k \in 0..MaxIdLen}
    \cup {Repeat("a", MaxIdentifierLength), Repeat("a", MaxIdentifierLength + 1),
          <<DQ>> \o Repeat("a", MaxIdentifierLength - 1),
          <<DQ>> \o Repeat("a", MaxIdentifierLength)}

\* A variant that leaves embedded double quotes alone.
EscapeNothing(s) == s

\* Every embedded double quote is doubled (the string is done by halves).
RECURSIVE Escape(_)
Escape(s) ==
  IF Len(s) = 0 THEN <<>>
  ELSE IF Len(s) = 1 THEN (IF s[1] = DQ THEN <<DQ, DQ>> ELSE s)
  ELSE LET h == Len(s) \div 2
       IN  Escape(SubSeq(s, 1, h)) \o Escape(SubSeq(s, h + 1, Len(s)))

\* A variant that lets one more character through.
RejectedLax(absent, s) == absent \/ Len(s) = 0 \/ Len(s) > MaxIdentifierLength + 1

\* The inputs that fail with "Invalid identifier": empty, None, too long.
Rejected(absent, s) == absent \/ Len(s) = 0 \/ Len(s) > MaxIdentifierLength

\* quote_identifier(s) of an accepted identifier.
QuoteIdentifier(s) == <<DQ>> \o Escape(s) \o <<DQ>>

QuoteStep(q) ==
  /\ qt' = q
  /\ UNCHANGED <<mgr, life, tst, ex, bor, pgn, inf, rt, cat>>

\* quote_identifier is called with None, or with a string.
QuoteCall(absent, s) ==
  /\ qt.pc = "none"
  /\ QuoteStep([pc |-> "quoting", absent |-> absent, name |-> s, out |-> <<>>,
                site |-> "quote_identifier"])

\* The identifier is accepted and returned quoted.
QuoteReturn ==
  /\ qt.pc = "quoting"
  /\ ~Rejected(qt.absent, qt.name)
  /\ QuoteStep([qt EXCEPT !.pc = "quoted", !.out = QuoteIdentifier(qt.name)])

\* The identifier is rejected: ValueError("Invalid identifier ...").
QuoteRaise ==
  /\ qt.pc = "quoting"
  /\ Rejected(qt.absent, qt.name)
  /\ QuoteStep([qt EXCEPT !.pc = "invalid"])

\* The call is over.
QuoteEnd ==
  /\ qt.pc \in {"quoted", "invalid", "built"}
  /\ QuoteStep(NoStatement)

\* The endpoints that interpolate a name into a statement, and where the
\* name comes from: the request path, or a row of SHOW DATABASES.
Sites == {"get_schemas", "get_tables", "get_columns", "get_all_columns"}

\* What each endpoint puts into its statement in the place of the name.
Interpolated(site, s) ==
  CASE site = "get_schemas" -> s
    [] site = "get_tables" -> <<DQ>> \o s \o <<DQ>>
    [] site = "get_columns" -> s
    [] OTHER -> <<DQ>> \o s \o <<DQ>>

\* An endpoint builds its statement around the database name s.
BuildStatement(site, s) ==
  /\ qt.pc = "none"
  /\ QuoteStep([pc |-> "built", absent |-> FALSE, name |-> s,
                out |-> Interpolated(site, s), site |-> site])

NextQuote ==
  \/ \E absent \in BOOLEAN, s \in Identifiers :
       /\ absent => s = <<>>
       /\ QuoteCall(absent, s)
  \/ QuoteReturn
  \/ QuoteRaise
  \/ QuoteEnd
  \/ \E site \in Sites, s \in Identifiers : BuildStatement(site, s)

SpecQuote == Init /\ [][NextQuote]_vars

\* ------------------------------------------------------------------------
\* The routers' requests for a stored connection: get_connection_credentials
\* and the manager call that follows (the query endpoints), and
\* delete_connection.  One request at a time; rt is the request, with what
\* the managers and the stored records were when it arrived.

Users == {"u1", "u2"}

\* The passwords a stored record can hold over time.
Passwords == {"k1", "k2"}

\* user_id of the stored record of a connection_id.
Owner(id) == IF id = "c1" THEN "u1" ELSE "u2"

\* The task slot in which the request runs its manager call.
RequestTask == CHOOSE t \in Tasks : \A u \in Tasks : t <= u

\* A variant without the ownership test.
AuthorizedAnyUser(m, id, user) == <<m, id>> \in stored

\* The record exists and, in the Postgres router, is the caller's:
\* `if not connection or connection.user_id != user_id: raise 404`.
Authorized(m, id, user) ==
  /\ <<m, id>> \in stored
  /\ m = "pg" => Owner(id) = user

RouterStep(r) ==
  /\ rt' = r
  /\ UNCHANGED <<mgr, life, tst, ex, bor, pgn, inf, qt, cat>>

\* A request arrives and selects the stored record.
RouterRequest(m, op, id, user, password) ==
  /\ rt.pc = "none"
  /\ Quiet
  /\ RouterStep([pc |-> "lookup", m |-> m, op |-> op, id |-> id, user |-> user,
                 password |-> password, made |-> rt.made,
                 decrypts |-> 0, decrypt |-> "none", calls |-> 0, status |-> 0,
                 got |-> 0,
                 before |-> [pools |-> pools, handles |-> handles, stored |-> stored]])

\* No record, or another user's: 404.
RouterNotFound ==
  /\ rt.pc = "lookup"
  /\ ~Authorized(rt.m, rt.id, rt.user)
  /\ RouterStep([rt EXCEPT !.pc = "answered", !.status = 404])

\* The record is the caller's: the query endpoints decrypt its password,
\* delete_connection goes on to close the pool.
RouterFound ==
  /\ rt.pc = "lookup"
  /\ Authorized(rt.m, rt.id, rt.user)
  /\ RouterStep([rt EXCEPT !.pc = IF rt.op = "query" THEN "decrypt" ELSE "credentials"])

\* encryption.decrypt returns the password.
RouterDecryptOk ==
  /\ rt.pc = "decrypt"
  /\ RouterStep([rt EXCEPT !.pc = "credentials", !.decrypts = @ + 1, !.decrypt = "ok"])

\* A variant that goes on without the password.
RouterDecryptRaiseGoesOn ==
  /\ rt.pc = "decrypt"
  /\ RouterStep([rt EXCEPT !.pc = "credentials", !.decrypts = @ + 1, !.decrypt = "failed"])

\* encryption.decrypt raises: 500 "Failed to decrypt credentials".
RouterDecryptRaise ==
  /\ rt.pc = "decrypt"
  /\ RouterStep([rt EXCEPT !.pc = "answered", !.status = 500,
                           !.decrypts = @ + 1, !.decrypt = "failed"])

\* The request calls get_pool / get_connection, or close_pool /
\* close_connection.
RouterCall ==
  /\ rt.pc = "credentials"
  /\ rt.op = "query" => Len(handles) + Cardinality(Constructing) < MaxHandles
  /\ rt' = [rt EXCEPT !.pc = "in_manager", !.calls = @ + 1]
  /\ task' = [task EXCEPT ![RequestTask] =
                [IdleTask EXCEPT !.pc = "wait", !.m = rt.m, !.id = rt.id,
                                 !.op = IF rt.op = "query" THEN "get" ELSE "close"]]
  /\ UNCHANGED <<pools, lock, handles, stored, life, tst, ex, bor, pgn, inf, qt, cat>>

\* The manager call has returned or raised.  A query with its handle runs
\* and answers 200; get_pool / get_connection raising answers 500; after
\* close_pool / close_connection the record is deleted, unless the close
\* raised.
RouterReturn ==
  /\ rt.pc = "in_manager"
  /\ task[RequestTask].pc \in {"have", "idle"}
  /\ LET failed == task[RequestTask].pc = "idle" /\ task[RequestTask].err # "none"
     IN  /\ rt' = [rt EXCEPT !.pc = "answered",
                             !.status = IF failed THEN 500 ELSE 200,
                             !.got = task[RequestTask].held,
                             !.made = [h \in DOMAIN handles |->
                                         IF h \in DOMAIN rt.made
                                           THEN rt.made[h] ELSE rt.password]]
         /\ stored' = IF rt.op = "delete" /\ ~failed
                        THEN stored \ {<<rt.m, rt.id>>} ELSE stored
  /\ task' = [task EXCEPT ![RequestTask] = IdleTask]
  /\ UNCHANGED <<pools, lock, handles, life, tst, ex, bor, pgn, inf, qt, cat>>

\* The response is sent.
RouterEnd ==
  /\ rt.pc = "answered"
  /\ RouterStep([NoRequest EXCEPT !.made = rt.made])

\* close_all is called while no request is in progress.
RouterCloseAll ==
  /\ rt.pc = "none"
  /\ Quiet
  /\ \E t \in Tasks, m \in Managers : CallCloseAll(t, m)

NextRouter ==
  \/ \E m \in Managers, op \in {"query", "delete"}, id \in ConnIds, user \in Users,
        password \in Passwords :
       RouterRequest(m, op, id, user, password)
  \/ RouterNotFound
  \/ RouterFound
  \/ RouterDecryptOk
  \/ RouterDecryptRaise
  \/ RouterCall
  \/ RouterReturn
  \/ RouterEnd
  \/ RouterCloseAll
  \/ \E t \in Tasks : GetHit(t)
  \/ \E t \in Tasks : GetProbe(t)
  \/ \E t \in Tasks : GetMiss(t)
  \/ \E t \in Tasks : ProbeOk(t)
  \/ \E t \in Tasks : ProbeFail(t)
  \/ \E t \in Tasks : CreateOk(t)
  \/ \E t \in Tasks : CreateFail(t)
  \/ \E t \in Tasks : CloseAbsent(t)
  \/ \E t \in Tasks : CloseBegin(t)
  \/ \E t \in Tasks : CloseOk(t)
  \/ \E t \in Tasks : CloseRaise(t)
  \/ \E t \in Tasks : CloseAllEmpty(t)
  \/ \E t \in Tasks : CloseAllBegin(t)
  \/ \E t \in Tasks : CloseAllOk(t)
  \/ \E t \in Tasks : CloseAllRaise(t)

SpecRouter == Init /\ [][NextRouter]_vars

\* ------------------------------------------- multi-catalog enumeration
\* routers/snowflake.py get_tables and get_all_columns, from the point
\* where the cached connection has been obtained. A name is the sequence of
\* its characters.

Lowercase ==
  <<"a", "b", "c", "d", "e", "f", "g", "h", "i", "j", "k", "l", "m",
    "n", "o", "p", "q", "r", "s", "t", "u", "v", "w", "x", "y", "z">>
Uppercase ==
  <<"A", "B", "C", "D", "E", "F", "G", "H", "I", "J", "K", "L", "M",
    "N", "O", "P", "Q", "R", "S", "T", "U", "V", "W", "X", "Y", "Z">>

\* db_name.upper(): str.upper() of each character.
Upper(s) ==
  [i \in DOMAIN s |->
     IF \E k \in DOMAIN Lowercase : Lowercase[k] = s[i]
       THEN Uppercase[CHOOSE k \in DOMAIN Lowercase : Lowercase[k] = s[i]]
       ELSE s[i]]

SNOWFLAKE == <<"S", "N", "O", "W", "F", "L", "A", "K", "E">>

\* The tuple of the membership test: SNOWFLAKE and SNOWFLAKE_SAMPLE_DATA.
SystemDatabases ==
  { SNOWFLAKE,
    SNOWFLAKE \o <<"_", "S", "A", "M", "P", "L", "E", "_", "D", "A", "T", "A">> }

\* The names SHOW DATABASES may report; the empty name is a row without one.
DbNames ==
  { SNOWFLAKE,
    <<"s", "n", "o", "w", "f", "l", "a", "k", "e">>,
    <<"S", "n", "o", "w", "f", "l", "a", "k", "e", "_", "S", "a", "m", "p",
      "l", "e", "_", "D", "a", "t", "a">>,
    SNOWFLAKE \o <<"2">>,
    <<"s", "a", "l", "e", "s">>,
    <<>> }

\* The rows of SHOW DATABASES: distinct names, at most MaxDbs of them.
DbRows ==
  { r \in UNION {[1..n -> DbNames] : n \in 0..MaxDbs} :
      \A i, j \in DOMAIN r : i # j => r[i] # r[j] }

\* A variant that compares the name as it is written.
SkippedExact(db_name) == db_name \in SystemDatabases

\* if db_name.upper() in ("SNOWFLAKE", "SNOWFLAKE_SAMPLE_DATA"): continue
Skipped(db_name) == Upper(db_name) \in SystemDatabases

\* The entries one database contributes: a TableInfo per row (get_tables),
\* a ColumnInfo under its table's key per row (get_all_columns).
Entries(db_name, n) == [k \in 1..n |-> [database_name |-> db_name, row |-> k]]

CatStep(c) ==
  /\ cat' = c
  /\ UNCHANGED <<mgr, life, tst, ex, bor, pgn, inf, qt, rt>>

\* The handler reaches its try block with an empty result.
CatRequest(site) ==
  /\ cat.pc = "none"
  /\ CatStep([pc |-> "show", site |-> site, databases |-> <<>>, i |-> 1,
              ran |-> <<>>, out |-> <<>>, show |-> "none", status |-> 0])

\* SHOW DATABASES returns; rows without a name are dropped.
ShowDatabasesOk(db_rows) ==
  /\ cat.pc = "show"
  /\ CatStep([cat EXCEPT !.pc = "loop", !.show = "ok",
                !.databases = SelectSeq(db_rows, LAMBDA name : name # <<>>)])

\* SHOW DATABASES raises: the outer except answers 500.
ShowDatabasesRaise ==
  /\ cat.pc = "show"
  /\ CatStep([cat EXCEPT !.pc = "answered", !.show = "err", !.status = 500])

\* A system database: continue.
CatSkip ==
  /\ cat.pc = "loop"
  /\ cat.i <= Len(cat.databases)
  /\ Skipped(cat.databases[cat.i])
  /\ CatStep([cat EXCEPT !.i = cat.i + 1])

\* The per-database statement returns n rows, which are appended.
CatStatementOk(n) ==
  /\ cat.pc = "loop"
  /\ cat.i <= Len(cat.databases)
  /\ ~Skipped(cat.databases[cat.i])
  /\ CatStep([cat EXCEPT
       !.i = cat.i + 1,
       !.ran = Append(cat.ran, [db |-> cat.databases[cat.i], res |-> "ok", n |-> n]),
       !.out = cat.out \o Entries(cat.databases[cat.i], n)])

\* The per-database statement raises: except Exception: continue.
CatStatementRaise ==
  /\ cat.pc = "loop"
  /\ cat.i <= Len(cat.databases)
  /\ ~Skipped(cat.databases[cat.i])
  /\ CatStep([cat EXCEPT
       !.i = cat.i + 1,
       !.ran = Append(cat.ran, [db |-> cat.databases[cat.i], res |-> "err", n |-> 0])])

\* The loop is over: the response is returned.
CatReturn ==
  /\ cat.pc = "loop"
  /\ cat.i > Len(cat.databases)
  /\ CatStep([cat EXCEPT !.pc = "answered", !.status = 200])

CatEnd ==
  /\ cat.pc = "answered"
  /\ CatStep(NoEnumeration)

NextCatalog ==
  \/ \E site \in {"tables", "columns"} : CatRequest(site)
  \/ \E db_rows \in DbRows : ShowDatabasesOk(db_rows)
  \/ ShowDatabasesRaise
  \/ CatSkip
  \/ \E n \in 0..MaxEntries : CatStatementOk(n)
  \/ CatStatementRaise
  \/ CatReturn
  \/ CatEnd

SpecCatalog == Init /\ [][NextCatalog]_vars

\* ======================================================================
\* Properties
\* ======================================================================

\* The construction calls made so far for connection_id id of manager m.
HandlesOf(m, id) ==
  {h \in DOMAIN handles : handles[h].m = m /\ handles[h].id = id}

\* The requests that got a handle for id from manager m and have it still.
Holders(m, id) ==
  {t \in Tasks : /\ task[t].pc \in {"have", "using"}
                 /\ task[t].m = m
                 /\ task[t].id = id}

\* One construction call at most, which every caller got.
OneConstruction(m, id) ==
  /\ Cardinality(HandlesOf(m, id)) <= 1
  /\ \A t \in Holders(m, id) : HandlesOf(m, id) = {task[t].held}

\* C1 as stated: for every manager and connection_id, as long as no
\* construction for it has failed and neither close(connection_id) nor
\* close_all has closed a handle of it, all the acquire calls made for it,
\* however interleaved, have caused one construction call in all and every
\* caller has received that one handle.
C1_OneConstructionAsStated ==
  \A m \in Managers, id \in ConnIds :
    (\A h \in HandlesOf(m, id) : handles[h].st = "open" \/ handles[h].by = "probe")
      => OneConstruction(m, id)

\* C1 as amended: the same, as long as moreover no liveness probe of the
\* cached Snowflake session has failed.
C1_OneConstruction ==
  \A m \in Managers, id \in ConnIds :
    (\A h \in HandlesOf(m, id) : handles[h].st = "open") => OneConstruction(m, id)

\* Two requests hold the handle of the one construction call made for their
\* connection_id.
C1_Witness ==
  \E m \in Managers, id \in ConnIds :
    /\ Cardinality(Holders(m, id)) >= 2
    /\ Cardinality(HandlesOf(m, id)) = 1
    /\ \A h \in HandlesOf(m, id) : handles[h].st = "open"

\* C2: in every reachable state each connection_id of each manager has at
\* most one handle that was constructed and on which close() has not been
\* called, and at most one entry in the manager's dict.
C2_AtMostOneLive ==
  \A m \in Managers, id \in ConnIds :
    /\ Cardinality({h \in HandlesOf(m, id) : handles[h].st = "open"}) <= 1
    /\ Cardinality({i \in DOMAIN pools[m] : pools[m][i].id = id}) <= 1

\* A handle was closed and another one constructed for the same connection_id,
\* which is cached.
C2_Witness ==
  \E m \in Managers, id \in ConnIds :
    \E h1, h2 \in HandlesOf(m, id) :
      /\ handles[h1].st = "closed"
      /\ handles[h2].st = "open"
      /\ Lookup(pools[m], id) = h2

\* Task t is between the `async with cls._lock` of manager m and its end.
InSection(t, m) ==
  /\ task[t].m = m
  /\ task[t].pc \in {"probing", "creating", "closing", "closing_all"}

\* C3: a task inside a section of a manager that mutates the dict holds that
\* manager's lock (so no two tasks are inside at the same time), and every
\* step that changes a manager's dict is taken by the task holding its lock.
C3_MutationUnderLock ==
  /\ [](\A m \in Managers : \A t \in Tasks : InSection(t, m) => lock[m] = t)
  /\ [][\A m \in Managers :
          pools'[m] # pools[m] =>
            \E t \in Tasks : lock[m] = t /\ InSection(t, m) /\ task'[t] # task[t]]_vars

\* A task is inside a mutating section while another waits for the same lock.
C3_Witness ==
  \E m \in Managers : \E t1, t2 \in Tasks :
    /\ InSection(t1, m)
    /\ lock[m] = t1
    /\ task[t2].pc = "wait"
    /\ task[t2].m = m

\* C4: a request never starts to use (borrow a connection from, execute a
\* statement on) a handle on which close() has been called since the request
\* acquired it.
C4_NoUseAfterClose ==
  \A t \in Tasks : task[t].pc = "using" => task[t].useSt = "open"

\* Task t's acquire call returns a handle in this step.
Acquires(t) ==
  /\ task[t].pc \in {"wait", "probing", "creating"}
  /\ task'[t].pc = "have"

\* C5: an acquire never returns a handle on which close() has been called: an
\* acquire that follows close(connection_id) gets a newly constructed handle.
C5_NeverReturnsClosed ==
  [][\A t \in Tasks : Acquires(t) => handles'[task'[t].held].st = "open"]_vars

\* The construction call of task t returns, respectively raises, in this step.
Constructs(t, st) ==
  /\ task[t].pc = "creating"
  /\ task'[t] # task[t]
  /\ Len(handles') > Len(handles)
  /\ handles'[Len(handles')].st = st

\* C6: when the probe of the cached Snowflake session fails, the same
\* get_connection call closes the session, deletes its entry and goes on to
\* construct; when that construction succeeds the call returns the new
\* session, cached under the same connection_id, without raising.  A session
\* whose probe failed is not returned by the call that probed it.
C6_StalenessRecovery ==
  [][\A t \in Tasks :
       /\ (task[t].pc = "probing" /\ handles'[task[t].held].by = "probe") =>
            /\ handles'[task[t].held].st = "closed"
            /\ ~Cached(pools'["sf"], task[t].id)
            /\ task'[t].pc = "creating"
            /\ task'[t].stale = task[t].held
       /\ (task[t].stale # 0 /\ Constructs(t, "open")) =>
            /\ task'[t].pc = "have"
            /\ task'[t].err = "none"
            /\ task'[t].held # task[t].stale
            /\ task'[t].held = Len(handles')
            /\ Lookup(pools'["sf"], task[t].id) = task'[t].held]_vars

\* A get_connection call has returned a new session after the probe of the
\* cached one failed.
C6_Witness ==
  \E t \in Tasks :
    /\ task[t].pc = "have"
    /\ task[t].stale # 0
    /\ handles[task[t].stale].by = "probe"
    /\ handles[task[t].held].st = "open"
    /\ Lookup(pools["sf"], task[t].id) = task[t].held

\* C7: when the construction call of an acquire raises, the acquire has made
\* that one construction call only, it raises the error to its caller, the
\* connection_id is not in the dict and the lock is free.
C7_ConstructionFailure ==
  [][\A t \in Tasks :
       Constructs(t, "failed") =>
         /\ Len(handles') = Len(handles) + 1
         /\ task'[t].pc = "idle"
         /\ task'[t].err = "ConnectivityError"
         /\ ~Cached(pools'[task[t].m], task[t].id)
         /\ lock'[task[t].m] = Free]_vars

\* A construction failed and a later acquire for the same connection_id
\* constructed again.
C7_Witness ==
  \E m \in Managers, id \in ConnIds :
    \E h1, h2 \in HandlesOf(m, id) :
      /\ h1 < h2
      /\ handles[h1].st = "failed"
      /\ handles[h2].st = "open"
      /\ lock[m] = Free

\* Task t's call of op ends (returns or raises) in this step.
Ends(t, op) ==
  /\ task[t].op = op
  /\ task[t].pc # "idle"
  /\ task'[t].pc = "idle"

\* C8: every close_all call returns without raising and leaves the dict
\* empty, and a close_all call that finds the dict as a close_all call leaves
\* it closes nothing.
C8_CloseAllIdempotent ==
  [][\A t \in Tasks :
       Ends(t, "close_all") =>
         /\ task'[t].err = "none"
         /\ pools'[task[t].m] = <<>>
         /\ pools[task[t].m] = <<>> => handles' = handles]_vars

\* C9: when a close_all call ends, close() has been called on every handle
\* the dict held, whether or not one of these close() calls raised; the
\* close_all call has not raised and the dict is empty.
C9_CloseAllBestEffort ==
  [][\A t \in Tasks :
       Ends(t, "close_all") =>
         /\ \A i \in DOMAIN pools[task[t].m] :
              handles'[pools[task[t].m][i].h].st = "closed"
         /\ task'[t].err = "none"
         /\ pools'[task[t].m] = <<>>]_vars

\* C10: when a close(connection_id) call ends, every other entry of the dict
\* is as it was and its handle has not been closed; if connection_id was not
\* in the dict the call has not raised and has closed nothing; and
\* connection_id is not in the dict, so that the same call made again finds
\* nothing to do.
C10_CloseOnlyThatEntry ==
  [][\A t \in Tasks :
       Ends(t, "close") =>
         /\ \A m \in Managers : \A i \in DOMAIN pools[m] :
              (m # task[t].m \/ pools[m][i].id # task[t].id) =>
                /\ Lookup(pools'[m], pools[m][i].id) = pools[m][i].h
                /\ handles'[pools[m][i].h] = handles[pools[m][i].h]
         /\ ~Cached(pools[task[t].m], task[t].id) =>
              /\ task'[t].err = "none"
              /\ handles' = handles
              /\ pools' = pools
         /\ ~Cached(pools'[task[t].m], task[t].id)]_vars

\* C11: on orderly shutdown the lifespan invokes close_all exactly once on
\* each manager, and when shutdown has finished no pool or session of either
\* manager is left open or left in a mapping.
C11_ShutdownClosesAll ==
  life.phase \in {"done", "failed"} =>
    /\ \A m \in Managers : life.calls[m] = 1
    /\ \A m \in Managers : pools[m] = <<>>
    /\ \A h \in DOMAIN handles : handles[h].st # "open"

\* C12: test_connection of either manager leaves no residue: no step of the
\* call changes a manager's mapping (the throwaway is never registered),
\* and when the call has returned or raised, a throwaway that was opened has
\* been closed.
C12_TestLeavesNoResidue ==
  [][/\ tst' # tst => pools' = pools /\ handles' = handles
     /\ \A m \in Managers :
          tst'[m].pc \in {"returned", "raised"} => tst'[m].conn # "open"]_vars

\* A Snowflake test call whose statement failed has raised with its
\* throwaway closed, beside a non-empty mapping.
C12_Witness ==
  /\ tst["sf"].pc = "raised"
  /\ tst["sf"].conn = "closed"
  /\ tst["sf"].res = "err"
  /\ \E m \in Managers : pools[m] # <<>>

\* C13: every blocking driver call of SnowflakeConnectionManager (connect,
\* probe, statement, every close, the close of a stale session included) runs
\* on the executor, never on the event-loop thread, and at most 10 run at the
\* same time.
C13_DriverCallsOnExecutor ==
  /\ ex.loop = "free"
  /\ DriverCalls <= MaxWorkers

\* C14: statements that never return cannot stall a get_connection or
\* close_connection call for another connection_id: the call's driver call is
\* never left in the work queue with every worker held by a statement that
\* never returns, a state from which the call cannot complete.
C14_HungStatementsCannotStall ==
  ~(ex.job = "queued" /\ ex.hung = MaxWorkers)

\* The requests that are inside `async with pool.acquire()`.
Borrowers == {r \in Requests : bor.pc[r] \in {"count", "page"}}

\* The requests that have finished.
Finished == {r \in Requests : bor.pc[r] \in {"ok", "err"}}

\* C15: every connection a Postgres router request borrows is returned on
\* every exit path, a raising statement included: the connections handed out
\* are exactly those of the requests inside the block, at most 5 of a pool
\* are borrowed, and once all requests have finished none is.
C15_BorrowedReturned ==
  /\ bor.borrowed = Cardinality(Borrowers)
  /\ bor.borrowed <= MaxSize
  /\ Finished = Requests => bor.borrowed = 0

\* All requests have finished, more than the pool has connections, one of
\* them after its statement raised while the pool was exhausted.
C15_Witness ==
  /\ Finished = Requests
  /\ Cardinality(Requests) > MaxSize
  /\ \E r \in Requests : bor.pc[r] = "err"
  /\ \E r \in Requests : bor.pc[r] = "ok"

\* The current call has executed statement s.
Executed(s) == \E i \in DOMAIN pgn.stmts : pgn.stmts[i] = s

\* C16: in a paginated call the count statement is executed if and only if
\* include_count is true and offset = 0, and then before the page statement
\* on the same connection; in every other case no count statement is issued
\* and total_rows is returned as null.
C16_CountOnlyOnFirstPage ==
  pgn.pc # "none" =>
    /\ Executed("count") => pgn.include_count /\ pgn.offset = 0
    /\ Executed("page") =>
         pgn.stmts = IF pgn.include_count /\ pgn.offset = 0
                       THEN <<"count", "page">> ELSE <<"page">>
    /\ pgn.pc = "answered" /\ ~(pgn.include_count /\ pgn.offset = 0) =>
         pgn.total_rows = Null

\* A call with include_count set and a positive offset was answered without
\* a count.
C16_Witness ==
  /\ pgn.pc = "answered"
  /\ pgn.include_count
  /\ pgn.offset > 0
  /\ pgn.stmts = <<"page">>
  /\ pgn.total_rows = Null

\* C17: every successful paginated response satisfies
\* next_offset = offset + rows_fetched, where rows_fetched is the number of
\* rows of that response and is at most batch_size.
C17_NextOffset ==
  pgn.pc = "answered" =>
    /\ pgn.next_offset = pgn.offset + Cardinality(pgn.rows)
    /\ Cardinality(pgn.rows) <= pgn.batch_size

\* A response with a short, non-empty page from a positive offset.
C17_Witness ==
  /\ pgn.pc = "answered"
  /\ pgn.offset > 0
  /\ pgn.rows # {}
  /\ Cardinality(pgn.rows) < pgn.batch_size

\* C18: when total_rows is known, has_more = (next_offset < total_rows); a
\* first page with include_count on a result set of exactly batch_size rows
\* has has_more = False and next_offset = batch_size.
C18_HasMoreKnown ==
  pgn.pc = "answered" /\ pgn.total_rows # Null =>
    /\ pgn.has_more = (pgn.next_offset < pgn.total_rows)
    /\ pgn.n = pgn.batch_size =>
         ~pgn.has_more /\ pgn.next_offset = pgn.batch_size

\* The first page of batch_size 5 on a result set of exactly 5 rows.
C18_Witness ==
  /\ pgn.pc = "answered"
  /\ pgn.total_rows = 5
  /\ pgn.batch_size = 5
  /\ Cardinality(pgn.rows) = 5

\* The session began at offset 0 without a count, on a result set whose size
\* is an exact non-zero multiple of batch_size.
ExactMultipleUncounted ==
  /\ pgn.first.offset = 0
  /\ ~pgn.first.include_count
  /\ pgn.n > 0
  /\ pgn.batch_size > 0
  /\ pgn.n % pgn.batch_size = 0

\* C19: when total_rows is not known, has_more = (rows_fetched = batch_size);
\* with include_count false and a result set whose size is an exact non-zero
\* multiple of batch_size, the page that returns the last rows has
\* has_more = True and only the following, empty page has has_more = False.
C19_HasMoreUnknown ==
  pgn.pc = "answered" /\ pgn.total_rows = Null =>
    /\ pgn.has_more = (Cardinality(pgn.rows) = pgn.batch_size)
    /\ ExactMultipleUncounted =>
         /\ pgn.rows # {} /\ pgn.next_offset = pgn.n => pgn.has_more
         /\ ~pgn.has_more <=> pgn.offset = pgn.n /\ pgn.rows = {}

\* The empty page that ends such a session, after more than one full page.
C19_Witness ==
  /\ pgn.pc = "answered"
  /\ ExactMultipleUncounted
  /\ pgn.calls > 2
  /\ pgn.offset = pgn.n
  /\ pgn.rows = {}
  /\ ~pgn.has_more

\* A session as the claim describes it: from offset 0 with include_count,
\* batch_size > 0.
CountedSession ==
  /\ pgn.pc # "none"
  /\ pgn.first.offset = 0
  /\ pgn.first.include_count
  /\ pgn.batch_size > 0

\* The session is over: the last response has has_more = False.
SessionOver == pgn.pc = "answered" /\ ~pgn.has_more

\* C20 as stated: such a session on an unchanging result set ends after
\* finitely many calls (at most n \div batch_size + 1), the rows returned over
\* all calls sum to the total_rows of page one, and no row is skipped or
\* returned twice.
C20_PagingSessionAsStated ==
  CountedSession =>
    /\ pgn.calls <= (pgn.n \div pgn.batch_size) + 1
    /\ SessionOver =>
         /\ pgn.sum = pgn.total1
         /\ \A r \in 1..pgn.n : pgn.got[r] = 1

\* C20: such a session on an unchanging result set ends after finitely many
\* calls (at most n \div batch_size + 1) and the rows returned over all calls
\* sum to the total_rows of page one; no row is skipped or returned twice if
\* the database returns the rows in the same order on every call.
C20_PagingSession ==
  CountedSession =>
    /\ pgn.calls <= (pgn.n \div pgn.batch_size) + 1
    /\ SessionOver =>
         /\ pgn.sum = pgn.total1
         /\ pgn.stable => \A r \in 1..pgn.n : pgn.got[r] = 1

\* A session of three calls over an ordered result set is over.
C20_Witness ==
  /\ CountedSession
  /\ SessionOver
  /\ pgn.stable
  /\ pgn.calls = 3
  /\ pgn.sum = pgn.n

\* Statement s was executed at most once by the current call.
AtMostOnce(s) ==
  Cardinality({i \in DOMAIN pgn.stmts : pgn.stmts[i] = s}) <= 1

\* C21: if the count statement or the page statement of a paginated call
\* fails, the call answers with an error and no rows at all (no truncated
\* page, no total_rows); when the count statement fails the page statement
\* is not executed, and a failed statement is not retried.
C21_NoPartialResults ==
  pgn.pc = "failed" =>
    /\ pgn.resp.status = 400
    /\ pgn.resp.rows = {}
    /\ pgn.resp.total_rows = Null
    /\ pgn.stmts \in {<<"count">>, <<"page">>, <<"count", "page">>}
    /\ pgn.stmts = <<"count">> <=> pgn.total_rows = Null /\ pgn.include_count /\ pgn.offset = 0
    /\ AtMostOnce("count") /\ AtMostOnce("page")

\* The page statement failed after the count had succeeded and some rows had
\* been materialised.
C21_Witness ==
  /\ pgn.pc = "failed"
  /\ pgn.stmts = <<"count", "page">>
  /\ pgn.total_rows > 0
  /\ pgn.rows # {}
  /\ pgn.resp.status = 400

\* The type the claim gives for a value.
StatedType(value) ==
  CASE value = "int" -> "integer"
    [] value = "float" -> "double precision"
    [] value = "bool" -> "boolean"
    [] OTHER -> "text"

\* C22: in the Postgres paginated endpoint the type of each column is
\* inferred from the first returned row's value: integer gives "integer",
\* floating gives "double precision", boolean gives "boolean", any other
\* value (null included) gives "text"; a page with zero rows gives an empty
\* column list.
C22_TypeInference ==
  inf.pc = "answered" =>
    IF inf.records = <<>>
      THEN inf.columns = <<>>
      ELSE \A c \in Columns : inf.columns[c] = StatedType(inf.records[1][c])

\* The number of double quotes in s.
Quotes(s) == Cardinality({i \in DOMAIN s : s[i] = DQ})

\* The number of double quotes that stand immediately before position i.
RunBefore(s, i) ==
  CHOOSE r \in 0..(i - 1) :
    /\ r = i - 1 \/ s[i - 1 - r] # DQ
    /\ \A q \in 1..r : s[i - q] = DQ

\* s with every pair of double quotes made one: of a run of double quotes
\* the first, third, ... are kept.
Undouble(s) ==
  LET Kept(p) == p[2] # DQ \/ RunBefore(s, p[1]) % 2 = 0
      kept == SelectSeq([i \in DOMAIN s |-> <<i, s[i]>>], Kept)
  IN  [j \in DOMAIN kept |-> kept[j][2]]

\* What is between the two delimiters of q.
Interior(q) == SubSeq(q, 2, Len(q) - 1)

\* C23: quote_identifier(s), for every accepted s, is s wrapped in one
\* leading and one trailing double quote with every embedded double quote
\* doubled: the double quotes between the delimiters number twice those of
\* s, and un-doubling the interior yields s again.
C23_QuoteRoundTrip ==
  qt.pc = "quoted" =>
    /\ Len(qt.out) = Len(qt.name) + Quotes(qt.name) + 2
    /\ Head(qt.out) = DQ
    /\ qt.out[Len(qt.out)] = DQ
    /\ Quotes(Interior(qt.out)) = 2 * Quotes(qt.name)
    /\ Undouble(Interior(qt.out)) = qt.name

\* An identifier of a quote, a separator and a newline has been quoted.
C23_Witness ==
  /\ qt.pc = "quoted"
  /\ qt.name = <<DQ, ";", "\n">>
  /\ qt.out = <<DQ, DQ, DQ, ";", "\n", DQ>>

\* C24: quote_identifier rejects exactly the inputs that are empty, None or
\* longer than 255 characters; every identifier of length 1 to 255 is
\* accepted, and 255 times 'a' yields itself wrapped in double quotes.
C24_QuoteRejects ==
  /\ qt.pc = "invalid" => qt.absent \/ qt.name = <<>> \/ Len(qt.name) > 255
  /\ qt.pc = "quoted" => ~qt.absent /\ Len(qt.name) \in 1..255
  /\ qt.pc = "quoted" /\ qt.name = Repeat("a", 255) =>
       qt.out = <<DQ>> \o Repeat("a", 255) \o <<DQ>>

\* 256 times 'a' has been rejected.
C24_Witness ==
  /\ qt.pc = "invalid"
  /\ ~qt.absent
  /\ qt.name = Repeat("a", 256)

\* C25: every Snowflake statement built by interpolating a catalog, schema
\* or table name passes the name through the quoting function first: what
\* stands in the statement is the quoted name, and a name the function
\* rejects reaches no statement.
C25_NamesAreQuoted ==
  qt.pc = "built" =>
    /\ ~Rejected(qt.absent, qt.name)
    /\ qt.out = QuoteIdentifier(qt.name)

\* The managers and the stored records are as they were when the request
\* arrived.
AsBefore ==
  /\ pools = rt.before.pools
  /\ handles = rt.before.handles
  /\ stored = rt.before.stored

\* C26: when decrypt of the stored password raises in
\* get_connection_credentials, the request ends with HTTP 500 after a single
\* decrypt attempt, no get_pool / get_connection call is made, and both
\* mappings are unchanged.
C26_DecryptFailureIsFatal ==
  rt.pc # "none" /\ rt.decrypt = "failed" =>
    /\ rt.pc = "answered"
    /\ rt.status = 500
    /\ rt.decrypts = 1
    /\ rt.calls = 0
    /\ AsBefore

\* A Snowflake request failed to decrypt while a session is cached.
C26_Witness ==
  /\ rt.pc = "answered"
  /\ rt.decrypt = "failed"
  /\ rt.m = "sf"
  /\ pools["sf"] # <<>>

\* The request's record was missing or another user's when it arrived.
Foreign ==
  \/ <<rt.m, rt.id>> \notin rt.before.stored
  \/ Owner(rt.id) # rt.user

\* C29: in the Postgres router get_pool and close_pool are called for a
\* connection_id only after its stored record was found and is the
\* authenticated user's; for a missing record or another user's the request
\* ends with 404, no pool is created, returned or closed, and the stored
\* record is not deleted.
C29_OwnerOnly ==
  rt.pc # "none" /\ rt.m = "pg" =>
    /\ rt.calls > 0 => ~Foreign
    /\ Foreign =>
         /\ rt.pc \in {"lookup", "answered"}
         /\ rt.pc = "answered" => rt.status = 404
         /\ AsBefore

\* A delete of another user's record, whose pool is cached, was answered 404.
C29_Witness ==
  /\ rt.pc = "answered"
  /\ rt.m = "pg"
  /\ rt.op = "delete"
  /\ rt.status = 404
  /\ <<"pg", rt.id>> \in stored
  /\ Cached(pools["pg"], rt.id)

\* The entry of id leaves the mapping of m, or gets another handle, in this
\* step.
Evicted(m, id) ==
  /\ \E i \in DOMAIN pools[m] : pools[m][i].id = id
  /\ \A i \in DOMAIN pools'[m] :
       pools'[m][i].id = id =>
         \E k \in DOMAIN pools[m] : pools[m][k].id = id /\ pools[m][k].h # pools'[m][i].h

\* The step is one of close(id), of close_all or of a failed probe of id.
Evicting(m, id) ==
  \E t \in Tasks :
    /\ task'[t] # task[t]
    /\ task[t].m = m
    /\ \/ task[t].pc = "closing" /\ task[t].id = id
       \/ task[t].pc = "closing_all"
       \/ m = "sf" /\ task[t].pc = "probing" /\ task[t].id = id

\* The answered query found its connection_id cached and got the cached
\* handle without a construction, or (Snowflake) the probe of it failed.
ReusedCached ==
  \A i \in DOMAIN rt.before.pools[rt.m] :
    rt.before.pools[rt.m][i].id = rt.id =>
      \/ /\ rt.got = rt.before.pools[rt.m][i].h
         /\ Len(handles) = Len(rt.before.handles)
         /\ pools = rt.before.pools
      \/ /\ rt.m = "sf"
         /\ handles[rt.before.pools[rt.m][i].h].by = "probe"

\* C27: an entry leaves a manager's mapping only through close(id),
\* close_all or (Snowflake) a failed liveness probe, and between such events
\* every acquire for the id returns the cached handle without a
\* construction call, whatever credentials are passed.
C27_ReusedUntilEvicted ==
  /\ [](rt.pc = "answered" /\ rt.op = "query" /\ rt.calls = 1 => ReusedCached)
  /\ [][\A m \in Managers, id \in ConnIds : Evicted(m, id) => Evicting(m, id)]_vars

\* A query got the cached handle although its password is not the one the
\* handle was constructed with.
C27_Witness ==
  /\ rt.pc = "answered"
  /\ rt.op = "query"
  /\ rt.status = 200
  /\ rt.got \in DOMAIN rt.before.handles
  /\ rt.made[rt.got] # rt.password

\* The two names differ at most in the case of their letters.
SameIgnoringCase(a, b) ==
  /\ Len(a) = Len(b)
  /\ \A i \in DOMAIN a :
       \/ a[i] = b[i]
       \/ \E k \in DOMAIN Lowercase : {a[i], b[i]} = {Lowercase[k], Uppercase[k]}

SystemName(db) == \E s \in SystemDatabases : SameIgnoringCase(db, s)

\* The entries of the databases whose statement succeeded, in order.
RECURSIVE EntriesOfSucceeded(_)
EntriesOfSucceeded(ran) ==
  IF ran = <<>> THEN <<>>
  ELSE EntriesOfSucceeded(SubSeq(ran, 1, Len(ran) - 1)) \o
       [k \in 1..ran[Len(ran)].n |->
          [database_name |-> ran[Len(ran)].db, row |-> k]]

Enters(u) ==
  \/ GetHit(u)
  \/ GetProbe(u)
  \/ GetMiss(u)
  \/ CloseAbsent(u)
  \/ CloseBegin(u)
  \/ CloseAllEmpty(u)
  \/ CloseAllBegin(u)

\* C30: while a construction, a probe or a close holds the lock of a
\* manager, a get, close or close_all call on that manager, for whatever
\* connection_id, stays at the lock and neither reads nor changes the dict;
\* a call on the other manager whose lock is free is never kept waiting.
C30_OneLockPerManager ==
  /\ [](\A u \in Tasks :
          task[u].pc = "wait" /\ lock[task[u].m] = Free => ENABLED Enters(u))
  /\ [][\A m \in Managers : \A t, u \in Tasks :
          /\ lock[m] = t
          /\ u # t
          /\ task[u].m = m
          /\ task[u].pc = "wait"
          => /\ task'[u] = task[u]
             /\ pools'[m] # pools[m] => task'[t] # task[t]]_vars

\* A construction, probe or close for one connection_id holds the lock while
\* a call for the other connection_id of the same manager waits.
C30_Witness ==
  \E m \in Managers : \E t, u \in Tasks :
    /\ lock[m] = t
    /\ task[t].pc \in {"probing", "creating", "closing"}
    /\ task[u].pc = "wait"
    /\ task[u].m = m
    /\ task[u].op \in {"get", "close"}
    /\ task[u].id # task[t].id

====
